---- MODULE Spec2Model ----
(***************************************************************************)
(* Model of fedora-36-crash-analysis/t.cpp: a process that constructs an   *)
(* empty std::vector<char>, prints its size through std::cout, and then    *)
(* evaluates &buf[0] and prints it with printf("%p\n").  The build is      *)
(* either hardened (g++ -D _GLIBCXX_ASSERTIONS) or not.                    *)
(***************************************************************************)
EXTENDS Integers, Sequences, FiniteSets, TLC

\* Number of times the program is launched in one behaviour.
MaxRuns == 3
\* Addresses range over 0..MaxAddr; 0 is the null pointer.
MaxAddr == 2

VARIABLES
    hardened,   \* TRUE iff the build defines _GLIBCXX_ASSERTIONS
    isatty,     \* TRUE iff fd 1 is a terminal (stdio line-buffers it)
    pc,         \* position of the process in main
    buf,        \* contents of std::vector<char> buf
    bufLive,    \* "none" | "live" | "destroyed"
    ref,        \* value of &buf[0] once evaluated, else NoRef
    stdout,     \* [pend |-> chars in the stdio buffer, out |-> chars written to fd 1]
    stderr,     \* diagnostics written to fd 2
    term,       \* "running" | "exited" | "signaled"
    code,       \* exit status, or NoCode
    sig,        \* terminating signal, or "none"
    steps,      \* the statements this process has executed, in order
    runs,       \* number of launches so far
    history     \* outcomes of the earlier launches, oldest first

vars == <<hardened, isatty, pc, buf, bufLive, ref, stdout, stderr,
          term, code, sig, steps, runs, history>>

procVars == <<pc, buf, bufLive, ref, stdout, stderr, term, code, sig, steps>>

Addrs == 0..MaxAddr
NoRef == -1
NoCode == -1

----------------------------------------------------------------------------
\* Text, as sequences of characters.

NL == "\n"
NUL == "\\0"
SizeLabel == <<"s", "i", "z", "e", ":", " ">>
NilText == <<"(", "n", "i", "l", ")">>
HexPrefix == <<"0", "x">>
DigitChars == <<"0", "1", "2", "3", "4", "5", "6", "7", "8", "9",
                "a", "b", "c", "d", "e", "f">>

Digit(d) == DigitChars[d + 1]

RECURSIVE Radix(_, _)
Radix(n, b) ==
    IF n < b THEN <<Digit(n)>> ELSE Radix(n \div b, b) \o <<Digit(n % b)>>

\* operator<<(std::ostream&, size_t): decimal, no padding.
DecStr(n) == Radix(n, 10)

\* printf("%p"): glibc prints (nil) for a null pointer, else 0x and lowercase hex.
FormatPtr(a) == IF a = 0 THEN NilText ELSE HexPrefix \o Radix(a, 16)

----------------------------------------------------------------------------
\* The C stdio stream behind std::cout (sync_with_stdio) and printf.

EmptyStream == [pend |-> <<>>, out |-> <<>>]

\* Index of the last newline of s, or 0.
LastNL(s) ==
    LET I == {i \in 1..Len(s) : s[i] = NL}
    IN  IF I = {} THEN 0 ELSE CHOOSE i \in I : \A j \in I : j <= i

\* fflush(stdout)
Flush(s) == [pend |-> <<>>, out |-> s.out \o s.pend]

\* A buffered write; a line-buffered stream writes through its last newline.
Put(s, chars, tty) ==
    LET p == s.pend \o chars
        k == IF tty THEN LastNL(p) ELSE 0
    IN  [pend |-> SubSeq(p, k + 1, Len(p)), out |-> s.out \o SubSeq(p, 1, k)]

\* exit(): the open streams are flushed.
ExitFlush_None(s) == s
ExitFlush(s) == Flush(s)

\* std::endl: put '\n', then flush.
Endl_NoFlush(s, tty) == Put(s, <<NL>>, tty)
Endl(s, tty) == Flush(Put(s, <<NL>>, tty))

----------------------------------------------------------------------------
\* The vector.

\* std::vector<char> buf;
DefaultVector_Sized == [i \in 1..128 |-> NUL]
DefaultVector == <<>>

\* __glibcxx_requires_subscript(__n): __n < this->size(), __n unsigned.
SubscriptOK_OffByOne(n, v) == 0 <= n /\ n <= Len(v)
SubscriptOK(n, v) == 0 <= n /\ n < Len(v)

SubscriptDiag == "Assertion '__n < this->size()' failed."

----------------------------------------------------------------------------
\* The process.

Launch(h, t) ==
    /\ hardened' = h
    /\ isatty' = t
    /\ pc' = "start"
    /\ buf' = <<>>
    /\ bufLive' = "none"
    /\ ref' = NoRef
    /\ stdout' = EmptyStream
    /\ stderr' = <<>>
    /\ term' = "running"
    /\ code' = NoCode
    /\ sig' = "none"
    /\ steps' = <<>>

Init ==
    /\ hardened \in BOOLEAN
    /\ isatty \in BOOLEAN
    /\ pc = "start"
    /\ buf = <<>>
    /\ bufLive = "none"
    /\ ref = NoRef
    /\ stdout = EmptyStream
    /\ stderr = <<>>
    /\ term = "running"
    /\ code = NoCode
    /\ sig = "none"
    /\ steps = <<>>
    /\ runs = 1
    /\ history = <<>>

\* line 22: std::vector<char> buf;
Construct ==
    /\ pc = "start"
    /\ buf' = DefaultVector
    /\ bufLive' = "live"
    /\ steps' = Append(steps, "start")
    /\ pc' = "print_size"
    /\ UNCHANGED <<hardened, isatty, ref, stdout, stderr, term, code, sig, runs, history>>

\* line 24: std::cout << "size: " << buf.size() << std::endl;
PrintSize ==
    /\ pc = "print_size"
    /\ stdout' = Endl(Put(Put(stdout, SizeLabel, isatty), DecStr(Len(buf)), isatty), isatty)
    /\ steps' = Append(steps, "print_size")
    /\ pc' = "access"
    /\ UNCHANGED <<hardened, isatty, buf, bufLive, ref, stderr, term, code, sig, runs, history>>

\* abort(): SIGABRT; the stdio buffers are not flushed.
Kill(signal) ==
    /\ term' = "signaled"
    /\ sig' = signal
    /\ pc' = "aborted"
    /\ UNCHANGED <<ref, stdout, code, buf, bufLive>>

\* line 25, the argument &buf[0].
Access ==
    /\ pc = "access"
    /\ steps' = Append(steps, "access")
    /\ IF SubscriptOK(0, buf)
       THEN /\ \E a \in Addrs \ {0} : ref' = a
            /\ pc' = "printf"
            /\ UNCHANGED <<stdout, stderr, term, code, sig, buf, bufLive>>
       ELSE IF hardened
            THEN /\ stderr' = Append(stderr, SubscriptDiag)
                 /\ Kill("SIGABRT")
            ELSE \* undefined behaviour: any address, or a fault
                 \/ /\ \E a \in Addrs : ref' = a
                    /\ pc' = "printf"
                    /\ UNCHANGED <<stdout, stderr, term, code, sig, buf, bufLive>>
                 \/ /\ Kill("SIGSEGV")
                    /\ UNCHANGED stderr
    /\ UNCHANGED <<hardened, isatty, runs, history>>

\* line 25: printf("%p\n", ...)
Printf ==
    /\ pc = "printf"
    /\ stdout' = Put(stdout, FormatPtr(ref) \o <<NL>>, isatty)
    /\ steps' = Append(steps, "printf")
    /\ pc' = "return"
    /\ UNCHANGED <<hardened, isatty, buf, bufLive, ref, stderr, term, code, sig, runs, history>>

\* line 26-27: return 0; buf is destroyed, exit() flushes stdio.
Return ==
    /\ pc = "return"
    /\ bufLive' = "destroyed"
    /\ stdout' = ExitFlush(stdout)
    /\ term' = "exited"
    /\ code' = 0
    /\ steps' = Append(steps, "return")
    /\ pc' = "exited"
    /\ UNCHANGED <<hardened, isatty, buf, ref, stderr, sig, runs, history>>

Finished == pc \in {"exited", "aborted"}

\* What an observer of a finished process sees.
Outcome ==
    [hardened |-> hardened, stdout |-> stdout.out, stderr |-> stderr,
     term |-> term, code |-> code, sig |-> sig, steps |-> steps]

\* The program is run again.
Exec ==
    /\ Finished
    /\ runs < MaxRuns
    /\ runs' = runs + 1
    /\ history' = Append(history, Outcome)
    /\ \E h \in BOOLEAN, t \in BOOLEAN : Launch(h, t)

Step == Construct \/ PrintSize \/ Access \/ Printf \/ Return

Next == Construct \/ PrintSize \/ Access \/ Printf \/ Return \/ Exec

Spec == Init /\ [][Next]_vars

\* The process is scheduled until it ends.
LiveSpec == Spec /\ WF_vars(Step)

----------------------------------------------------------------------------
\* Reading the output back.

Range(s) == {s[i] : i \in 1..Len(s)}

IsPrefix(p, s) == Len(p) <= Len(s) /\ SubSeq(s, 1, Len(p)) = p

FirstNL(s) == CHOOSE i \in 1..Len(s) : s[i] = NL /\ \A j \in 1..(i - 1) : s[j] # NL

\* The complete (newline-terminated) lines of s, without their newlines.
RECURSIVE Lines(_)
Lines(s) ==
    IF NL \notin Range(s) THEN <<>>
    ELSE <<SubSeq(s, 1, FirstNL(s) - 1)>> \o Lines(SubSeq(s, FirstNL(s) + 1, Len(s)))

\* What follows the last complete line of s.
Partial(s) == SubSeq(s, LastNL(s) + 1, Len(s))

IsDecDigit(c) == \E d \in 0..9 : Digit(d) = c
DecDigitVal(c) == CHOOSE d \in 0..9 : Digit(d) = c

RECURSIVE ParseDec(_)
ParseDec(ds) ==
    IF ds = <<>> THEN 0
    ELSE 10 * ParseDec(SubSeq(ds, 1, Len(ds) - 1)) + DecDigitVal(ds[Len(ds)])

\* Everything the process has handed to stdout, flushed or not.
Written == stdout.out \o stdout.pend

\* The text after "size: " on a length line.
LengthField(line) == SubSeq(line, Len(SizeLabel) + 1, Len(line))

IsLengthLine(line) ==
    /\ IsPrefix(SizeLabel, line)
    /\ LengthField(line) # <<>>
    /\ \A i \in 1..Len(LengthField(line)) : IsDecDigit(LengthField(line)[i])

IsAddressLine(line) == \E a \in Addrs : line = FormatPtr(a)

\* The captured output `size: 0\n`.
SizeZeroOutput == <<"s", "i", "z", "e", ":", " ", "0", "\n">>

Did(step) == step \in Range(steps)

AbortPath == <<"start", "print_size", "access">>

HardenedOutcomes ==
    {history[i] : i \in {j \in 1..Len(history) : history[j].hardened}}
        \cup (IF Finished /\ hardened THEN {Outcome} ELSE {})

----------------------------------------------------------------------------
\* C1: in the hardened build the index-0 access of the empty buffer ends the
\* process abnormally before anything more is printed: the address line is
\* never handed to stdout, and the captured stdout of the ended process is
\* exactly the one line "size: 0".
C1_HardenedNoAddressLine ==
    hardened =>
        /\ ~Did("printf")
        /\ ref = NoRef
        /\ \A i \in 1..Len(Lines(Written)) : ~IsAddressLine(Lines(Written)[i])
        /\ stdout.out \in {<<>>, SizeZeroOutput}
        /\ Did("access") => /\ term = "signaled"
                            /\ stdout.out = SizeZeroOutput
                            /\ stdout.pend = <<>>

C1_Witness ==
    /\ hardened
    /\ Did("access")
    /\ pc = "aborted"
    /\ stdout.out = SizeZeroOutput

\* C2: whenever the length line has been printed, in either build, the number
\* on it reads back as 0.
C2_PrintedLengthIsZero ==
    Did("print_size") =>
        /\ Len(Lines(Written)) >= 1
        /\ IsLengthLine(Lines(Written)[1])
        /\ ParseDec(LengthField(Lines(Written)[1])) = 0
        /\ LengthField(Lines(Written)[1]) = <<"0">>

\* A hardened run and then an unhardened run, each having printed its length.
C2_Witness ==
    /\ Len(history) >= 1
    /\ history[1].hardened
    /\ Lines(history[1].stdout) # <<>>
    /\ ~hardened
    /\ Did("print_size")
    /\ Lines(Written) # <<>>

\* C3: an unhardened run always ends (it may but need not be killed); when it
\* ends without being killed it has exit status 0 and its stdout is exactly
\* two lines, the length line and then an address line.
C3_UnhardenedExit ==
    /\ []((~hardened /\ Finished /\ term # "signaled") =>
            /\ term = "exited"
            /\ code = 0
            /\ stdout.pend = <<>>
            /\ Partial(stdout.out) = <<>>
            /\ Len(Lines(stdout.out)) = 2
            /\ IsLengthLine(Lines(stdout.out)[1])
            /\ IsAddressLine(Lines(stdout.out)[2]))
    /\ (~hardened /\ ~Finished) ~> (~hardened /\ Finished)

C3_Witness ==
    /\ ~hardened
    /\ pc = "exited"
    /\ code = 0
    /\ Len(Lines(stdout.out)) = 2

\* C4: all hardened runs have the same outcome: same stdout, same diagnostic,
\* same signal, stopped after the same statements (at the index-0 access),
\* whatever the earlier runs printed and whatever stdout is attached to.
C4_HardenedDeterministic ==
    \A o1 \in HardenedOutcomes :
        /\ o1.steps = AbortPath
        /\ o1.stderr = <<SubscriptDiag>>
        /\ o1.sig = "SIGABRT"
        /\ \A o2 \in HardenedOutcomes : o1 = o2

\* A hardened run, an unhardened run that printed a non-null address, and a
\* hardened run again.
C4_Witness ==
    /\ Len(history) >= 2
    /\ history[1].hardened
    /\ ~history[2].hardened
    /\ history[2].term = "exited"
    /\ Len(Lines(history[2].stdout)) = 2
    /\ Lines(history[2].stdout)[2] # NilText
    /\ hardened
    /\ Finished

\* C5: in either build, by the time the index-0 access is attempted the length
\* line has been written to fd 1, and it is the first thing on stdout, whatever
\* the access then does.
C5_LengthLineFirst ==
    /\ (pc = "access" \/ Did("access")) =>
            /\ Len(Lines(stdout.out)) >= 1
            /\ IsLengthLine(Lines(stdout.out)[1])
    /\ Written # <<>> => IsPrefix(SizeLabel, Written)

\* The three outcomes of the access, one after the other.
C5_Witness ==
    /\ Len(history) >= 2
    /\ history[1].hardened
    /\ history[1].sig = "SIGABRT"
    /\ ~history[2].hardened
    /\ history[2].term = "exited"
    /\ ~hardened
    /\ sig = "SIGSEGV"
    /\ IsLengthLine(Lines(stdout.out)[1])

\* C6: a hardened process never exits with status 0; it ends killed by
\* SIGABRT, and from then on nothing of that process changes.
C6_HardenedAbortTerminal ==
    /\ [](hardened => (term # "exited" /\ code # 0))
    /\ []((hardened /\ Finished) =>
            (pc = "aborted" /\ term = "signaled" /\ sig = "SIGABRT" /\ code = NoCode))
    /\ [][(hardened /\ pc = "aborted" /\ runs' = runs) =>
            UNCHANGED <<procVars, hardened, isatty>>]_vars

C6_Witness ==
    /\ hardened
    /\ term = "signaled"
    /\ sig = "SIGABRT"
    /\ stderr = <<SubscriptDiag>>

\* C7 as stated: no execution, in either build, reaches the return from main
\* and the destruction of the buffer.
C7_NeverReturns ==
    /\ bufLive # "destroyed"
    /\ pc # "exited"

\* C7 amended: no execution of the hardened build reaches the return from
\* main and the destruction of the buffer.
C7_HardenedNeverReturns ==
    hardened =>
        /\ bufLive # "destroyed"
        /\ pc \notin {"return", "exited"}
        /\ ~Did("return")

C7_Witness ==
    /\ hardened
    /\ pc = "aborted"
    /\ bufLive = "live"

\* C8: the buffer has length 0 in every state, so whenever the index-0 access
\* is about to be or has been attempted, 0 <= 0 < length is false.
C8_AlwaysEmpty ==
    /\ Len(buf) = 0
    /\ (pc = "access" \/ Did("access")) => ~(0 <= 0 /\ 0 < Len(buf))

C8_Witness ==
    /\ Did("access")
    /\ bufLive = "live"
    /\ Len(buf) = 0

\* C9: every hardened run reaches the abort, by the statements start, print
\* length, access, in that order and once each; the diagnostic is never
\* written before the length line.
C9_HardenedReachesAbort ==
    /\ [](hardened =>
            /\ IsPrefix(steps, AbortPath)
            /\ (pc = "aborted" <=> steps = AbortPath)
            /\ (stderr # <<>> => (Did("print_size") /\ stdout.out = SizeZeroOutput)))
    /\ (hardened /\ pc # "aborted") ~> (hardened /\ pc = "aborted")

C9_Witness ==
    /\ hardened
    /\ pc = "aborted"
    /\ steps = AbortPath
    /\ runs = MaxRuns

====
